---- MODULE Spec2Model ----
(***************************************************************************)
(* Front end of the N4 language: tokenizer.py, parser.py,                  *)
(* semantic_analyzer.py and the driver test.py.                            *)
(*                                                                         *)
(* Characters are one-character strings, a source text is a sequence of    *)
(* characters and a token literal is the sequence of characters it was     *)
(* read from.  Python objects are records whose domain is the set of       *)
(* attributes the constructor assigns; reading an attribute outside the    *)
(* domain raises AttributeError.                                           *)
(***************************************************************************)
EXTENDS Integers, Sequences, FiniteSets, TLC

VARIABLES
    pc,           \* the call the driver is in: "tokenize", "parse", "analyze", "done"
                  \* ("token_to_type" when Type.token_to_type is run on its own)
    exc,          \* the exception that escaped from that call ("none" while there is none)
    source,       \* Tokenizer.source
    idx,          \* Tokenizer.idx
    line_number,  \* Tokenizer.line_number
    tokens,       \* Tokenizer.tokens (the same list object is Parser.tokens)
    errors,       \* Tokenizer.errors
    p_idx,        \* Parser.idx
    p_errors,     \* Parser.errors
    p_types,      \* the Type objects that Type.token_to_type has returned, in order
    ast,          \* SemanticAnalyzer.ast
    agenda,       \* the pending postorder calls and end_scope calls, next one first
    scope_stack,  \* SemanticAnalyzer.scope_stack
    reports,      \* SemanticAnalyzer.reports
    reported,     \* SemanticAnalyzer.reported
    dtype,        \* the dtype attribute of the nodes that have one assigned, by path
    type_attr     \* the type attribute that define() assigns to a node, by path

tokVars == <<source, idx, line_number, tokens, errors>>
parVars == <<p_idx, p_errors, p_types>>
semVars == <<ast, agenda, scope_stack, reports, reported, dtype, type_attr>>

vars == <<pc, exc, tokVars, parVars, semVars>>

(***************************************************************************)
(* Bounds                                                                  *)
(***************************************************************************)
MaxLen == 3

\* the characters the bounded sources are built from: one or two of each class
Alphabet == {"a", "_", "1", " ", ";", "<", "=", "\n", "(", "$"}

(***************************************************************************)
(* tokenizer.py: tables                                                    *)
(***************************************************************************)
Letters == {"a", "b", "c", "d", "e", "f", "g", "h", "i", "j", "k", "l", "m",
            "n", "o", "p", "q", "r", "s", "t", "u", "v", "w", "x", "y", "z"}
Digits  == {"0", "1", "2", "3", "4", "5", "6", "7", "8", "9"}

isalpha(c)   == c \in Letters
isnumeric(c) == c \in Digits
isalnum(c)   == isalpha(c) \/ isnumeric(c)

COMMENT_CHAR == ";"

OPERATORS ==
    ( <<"+">> :> "PLUS" @@ <<"-">> :> "MINUS" @@ <<"*">> :> "STAR" @@
      <<"/">> :> "SLASH" @@ <<":">> :> "COLON" @@ <<"=">> :> "ASSIGN" @@
      <<"<">> :> "LESS" @@ <<">">> :> "GREATER" @@
      <<"<", "=">> :> "LESS_EQUAL" @@ <<">", "=">> :> "GREATER_EQUAL" )

STRUCTURES ==
    ( "(" :> "LEFT_PAREN" @@ ")" :> "RIGHT_PAREN" @@
      "\n" :> "NEWLINE" @@ "," :> "COMMA" )

KEYWORDS ==
    ( <<"f", "n">> :> "FN" @@ <<"i", "f">> :> "IF" @@
      <<"e", "l", "s", "e">> :> "ELSE" @@
      <<"w", "h", "i", "l", "e">> :> "WHILE" @@
      <<"e", "n", "d">> :> "END" @@
      <<"r", "e", "t", "u", "r", "n">> :> "RETURN" )

TYPES ==
    { <<"v", "o", "i", "d">>, <<"p", "t", "r">>, <<"b", "y", "t", "e">>,
      <<"s", "h", "o", "r", "t">>, <<"i", "n", "t">>, <<"l", "o", "n", "g">>,
      <<"u", "b", "y", "t", "e">>, <<"u", "s", "h", "o", "r", "t">>,
      <<"u", "i", "n", "t">>, <<"u", "l", "o", "n", "g">> }

\* Python's None
None == [none |-> TRUE]

\* Token.__init__ assigns exactly these three attributes
Token(type, literal, line) ==
    [type |-> type, literal |-> literal, line_number |-> line]

TokenizerException(message, line) ==
    [message |-> message, line_number |-> line]

\* obj.attr is defined iff the constructor assigned attr
HasAttr(obj, attr) == attr \in DOMAIN obj

(***************************************************************************)
(* tokenizer.py: Tokenizer                                                 *)
(***************************************************************************)
reached_eof_at(i) == i >= Len(source)

reached_eof == reached_eof_at(idx)

\* peek(ahead): None at end of input, otherwise source[idx + ahead]; the index
\* is not checked against the length, so peek(1) on the last character raises
Tokenizer_peek_raises(ahead) == ~reached_eof /\ idx + ahead >= Len(source)

Tokenizer_peek(ahead) ==
    IF reached_eof THEN None ELSE source[idx + ahead + 1]

\* read_ident: the loop condition calls peek().isalnum() before it looks at
\* reached_eof(), so running into the end of the input raises AttributeError
RECURSIVE read_ident_loop(_, _)
read_ident_loop(i, ident) ==
    IF reached_eof_at(i)
    THEN [exc |-> "AttributeError", idx |-> i, literal |-> ident]
    ELSE LET c == source[i + 1] IN
         IF isalnum(c) \/ (c = "_" /\ ~reached_eof_at(i))
         THEN read_ident_loop(i + 1, Append(ident, c))
         ELSE [exc |-> "none", idx |-> i, literal |-> ident]

read_ident == read_ident_loop(idx, <<>>)

RECURSIVE read_number_loop(_, _)
read_number_loop(i, number) ==
    IF reached_eof_at(i)
    THEN [exc |-> "AttributeError", idx |-> i, literal |-> number]
    ELSE LET c == source[i + 1] IN
         IF isnumeric(c) /\ ~reached_eof_at(i)
         THEN read_number_loop(i + 1, Append(number, c))
         ELSE [exc |-> "none", idx |-> i, literal |-> number]

read_number == read_number_loop(idx, <<>>)

\* consume_comment: None != "\n" holds at the end of input and the second
\* conjunct stops the loop there
RECURSIVE consume_comment_loop(_)
consume_comment_loop(i) ==
    IF (reached_eof_at(i) \/ source[i + 1] # "\n") /\ ~reached_eof_at(i)
    THEN consume_comment_loop(i + 1)
    ELSE i

consume_comment == consume_comment_loop(idx)

read_operator ==
    IF Tokenizer_peek_raises(1)
    THEN [exc |-> "IndexError", idx |-> idx, tok |-> None]
    ELSE LET two == <<Tokenizer_peek(0), Tokenizer_peek(1)>>
             one == <<Tokenizer_peek(0)>>
         IN  IF two \in DOMAIN OPERATORS
             THEN [exc |-> "none", idx |-> idx + 2,
                   tok |-> Token(OPERATORS[two], two, line_number)]
             ELSE [exc |-> "none", idx |-> idx + 1,
                   tok |-> Token(OPERATORS[one], one, line_number)]

\* read_structure(ln): ln is self.line_number at the time of the call
read_structure(ln) ==
    Token(STRUCTURES[Tokenizer_peek(0)], <<Tokenizer_peek(0)>>, ln)

IsPrefix(p, s) == Len(p) <= Len(s) /\ SubSeq(s, 1, Len(p)) = p

\* resolve_one as it would be with a test for a leading keyword or type name
\* in place of the lookup of the whole literal
resolve_one_prefix(t) ==
    IF \E k \in DOMAIN KEYWORDS : IsPrefix(k, t.literal)
    THEN [t EXCEPT !.type =
             KEYWORDS[CHOOSE k \in DOMAIN KEYWORDS : IsPrefix(k, t.literal)]]
    ELSE IF \E k \in TYPES : IsPrefix(k, t.literal)
         THEN [t EXCEPT !.type = "TYPE"]
         ELSE t

resolve_one(t) ==
    IF t.literal \in DOMAIN KEYWORDS
    THEN [t EXCEPT !.type = KEYWORDS[t.literal]]
    ELSE IF t.literal \in TYPES
         THEN [t EXCEPT !.type = "TYPE"]
         ELSE t

resolve_keywords(toks) == [i \in 1..Len(toks) |-> resolve_one(toks[i])]

\* the branch of the tokenize loop taken at the cursor, in the order of the
\* if / elif chain
Branch ==
    LET c == Tokenizer_peek(0) IN
    IF c \in {" ", "\t"} THEN "space"
    ELSE IF isalpha(c) \/ c = "_" THEN "ident"
    ELSE IF isnumeric(c) THEN "number"
    ELSE IF c = COMMENT_CHAR THEN "comment"
    ELSE IF <<c>> \in DOMAIN OPERATORS THEN "operator"
    ELSE IF c \in DOMAIN STRUCTURES THEN "structure"
    ELSE "invalid"

InLoop(b) == pc = "tokenize" /\ exc = "none" /\ ~reached_eof /\ Branch = b

TokenizerRaise(e, i) ==
    /\ exc' = e
    /\ idx' = i
    /\ UNCHANGED <<pc, source, line_number, tokens, errors>>

tokenize_space ==
    /\ InLoop("space")
    /\ idx' = idx + 1
    /\ UNCHANGED <<pc, exc, source, line_number, tokens, errors, parVars, semVars>>

tokenize_ident ==
    /\ InLoop("ident")
    /\ LET r == read_ident IN
       IF r.exc # "none"
       THEN TokenizerRaise(r.exc, r.idx)
       ELSE /\ idx' = r.idx
            /\ tokens' = Append(tokens, Token("IDENT", r.literal, line_number))
            /\ UNCHANGED <<pc, exc, source, line_number, errors>>
    /\ UNCHANGED <<parVars, semVars>>

tokenize_number ==
    /\ InLoop("number")
    /\ LET r == read_number IN
       IF r.exc # "none"
       THEN TokenizerRaise(r.exc, r.idx)
       ELSE /\ idx' = r.idx
            /\ tokens' = Append(tokens, Token("NUMBER", r.literal, line_number))
            /\ UNCHANGED <<pc, exc, source, line_number, errors>>
    /\ UNCHANGED <<parVars, semVars>>

tokenize_comment ==
    /\ InLoop("comment")
    /\ idx' = consume_comment
    /\ UNCHANGED <<pc, exc, source, line_number, tokens, errors, parVars, semVars>>

tokenize_operator ==
    /\ InLoop("operator")
    /\ LET r == read_operator IN
       IF r.exc # "none"
       THEN TokenizerRaise(r.exc, r.idx)
       ELSE /\ idx' = r.idx
            /\ tokens' = Append(tokens, r.tok)
            /\ UNCHANGED <<pc, exc, source, line_number, errors>>
    /\ UNCHANGED <<parVars, semVars>>

\* the line counter is incremented before read_structure builds the token
tokenize_structure ==
    /\ InLoop("structure")
    /\ line_number' = IF Tokenizer_peek(0) = "\n" THEN line_number + 1 ELSE line_number
    /\ tokens' = Append(tokens, read_structure(line_number'))
    /\ idx' = idx + 1
    /\ UNCHANGED <<pc, exc, source, errors, parVars, semVars>>

\* the else branch as it would be if the scan gave up at the character
tokenize_invalid_stops ==
    /\ InLoop("invalid")
    /\ errors' = Append(errors,
                   TokenizerException(<<"invalid character: ", Tokenizer_peek(0)>>, line_number))
    /\ idx' = Len(source)
    /\ UNCHANGED <<pc, exc, source, line_number, tokens, parVars, semVars>>

tokenize_invalid ==
    /\ InLoop("invalid")
    /\ errors' = Append(errors,
                   TokenizerException(<<"invalid character: ", Tokenizer_peek(0)>>, line_number))
    /\ idx' = idx + 1
    /\ UNCHANGED <<pc, exc, source, line_number, tokens, parVars, semVars>>

\* after the loop: resolve_keywords(), append the EOF token, return to the driver
tokenize_finish ==
    /\ pc = "tokenize"
    /\ exc = "none"
    /\ reached_eof
    /\ tokens' = Append(resolve_keywords(tokens), Token("EOF", <<>>, 0))
    /\ pc' = "parse"
    /\ UNCHANGED <<exc, source, idx, line_number, errors, parVars, semVars>>

tokenize ==
    \/ tokenize_space
    \/ tokenize_ident
    \/ tokenize_number
    \/ tokenize_comment
    \/ tokenize_operator
    \/ tokenize_structure
    \/ tokenize_invalid
    \/ tokenize_finish

(***************************************************************************)
(* parser.py: Parser                                                       *)
(***************************************************************************)
Parser_peek(ahead) ==
    IF p_idx >= Len(tokens) THEN None ELSE tokens[p_idx + ahead + 1]

\* expect(*types): False when peek() is None, otherwise reads the attribute
\* token_type of the token, which Token.__init__ never assigns
Parser_expect(types) ==
    IF Parser_peek(0) = None
    THEN [exc |-> "none", val |-> FALSE]
    ELSE IF ~HasAttr(Parser_peek(0), "token_type")
         THEN [exc |-> "AttributeError", val |-> FALSE]
         ELSE [exc |-> "none", val |-> Parser_peek(0).token_type \in types]

\* parse_program: the loop condition `not self.expect(TokenType.EOF)` is the
\* first thing evaluated; the AttributeError it raises is not a
\* ParserException, so the try block (which the loop has not even entered)
\* does not catch it and it escapes to the driver
parse_program ==
    /\ pc = "parse"
    /\ exc = "none"
    /\ Parser_expect({"EOF"}).exc # "none"
    /\ exc' = Parser_expect({"EOF"}).exc
    /\ UNCHANGED <<pc, tokVars, parVars, semVars>>

(***************************************************************************)
(* parser.py: Type and the AST node classes                                *)
(***************************************************************************)
size_map ==
    ( <<"v", "o", "i", "d">> :> 0 @@ <<"p", "t", "r">> :> 4 @@
      <<"b", "y", "t", "e">> :> 1 @@ <<"s", "h", "o", "r", "t">> :> 2 @@
      <<"i", "n", "t">> :> 4 @@ <<"l", "o", "n", "g">> :> 8 @@
      <<"u", "b", "y", "t", "e">> :> 1 @@ <<"u", "s", "h", "o", "r", "t">> :> 2 @@
      <<"u", "i", "n", "t">> :> 4 @@ <<"u", "l", "o", "n", "g">> :> 8 )

literal_is_signed(literal) ==
    literal \in { <<"u", "b", "y", "t", "e">>, <<"u", "s", "h", "o", "r", "t">>,
                  <<"u", "i", "n", "t">>, <<"u", "l", "o", "n", "g">> }

Type(name, size, signed) == [name |-> name, size |-> size, signed |-> signed]

literal_to_type(literal) ==
    Type(literal, size_map[literal], literal_is_signed(literal))

token_to_type(token) == literal_to_type(token.literal)

\* every node carries the attributes its constructor assigns, and `kind`, the
\* class that isinstance() tests
Primary(token) ==
    [kind |-> "Primary", line |-> token.line_number, token |-> token]

UnaryExpr(op, operand) ==
    [kind |-> "UnaryExpr", line |-> operand.line, op |-> op, operand |-> operand]

BinExpr(left, op, right) ==
    [kind |-> "BinExpr", line |-> left.line, op |-> op, left |-> left, right |-> right]

FunctionCall(name, args) ==
    [kind |-> "FunctionCall", line |-> name.line, name |-> name, args |-> args]

DefinitionStatement(ident, rhs, type) ==
    [kind |-> "DefinitionStatement", line |-> ident.line,
     ident |-> ident, rhs |-> rhs, type |-> type]

AssignmentStatement(lhs, rhs) ==
    [kind |-> "AssignmentStatement", line |-> lhs.line, lhs |-> lhs, rhs |-> rhs]

IfStatement(condition, true_body, false_body) ==
    [kind |-> "IfStatement", line |-> condition.line, condition |-> condition,
     true_body |-> true_body, false_body |-> false_body]

WhileStatement(condition, body) ==
    [kind |-> "WhileStatement", line |-> condition.line,
     condition |-> condition, body |-> body]

ReturnStatement(expr) ==
    [kind |-> "ReturnStatement", line |-> expr.line, expr |-> expr]

Body(statements) ==
    [kind |-> "Body",
     line |-> IF statements # <<>> THEN statements[1].line ELSE 0,
     statements |-> statements]

Param(ident, type) ==
    [kind |-> "Param", line |-> ident.line, ident |-> ident, type |-> type]

FunctionDefinition(name, params, return_type, body) ==
    [kind |-> "FunctionDefinition", line |-> name.line, name |-> name,
     params |-> params, return_type |-> return_type, body |-> body]

Program(contents) ==
    [kind |-> "Program", line |-> 1, contents |-> contents]

\* isinstance(node, cls): tokens are not AST nodes
isinstance(node, cls) == HasAttr(node, "kind") /\ node.kind = cls

\* get_name() of Primary, FunctionCall, Param and FunctionDefinition
get_name(node) ==
    IF node.kind = "Primary" THEN node.token.literal
    ELSE IF node.kind = "Param" THEN node.ident.token.literal
    ELSE node.name.token.literal

(***************************************************************************)
(* semantic_analyzer.py: SemanticAnalyzer                                  *)
(*                                                                         *)
(* The recursion of postorder() is unfolded into the agenda: the calls     *)
(* still to be made, in the order in which the recursion makes them.  A    *)
(* node is identified by its path, the child positions from the root.      *)
(***************************************************************************)
SemanticError(message, line) == [message |-> message, line_number |-> line]

Call(node, path) == [op |-> "postorder", node |-> node, path |-> path]

EndScope == [op |-> "end_scope"]

\* the state that report(), access() and define() read and write
SemState == [scope_stack |-> scope_stack, reports |-> reports,
             reported |-> reported, dtype |-> dtype, type_attr |-> type_attr]

report(st, name, message, line) ==
    IF name \in st.reported
    THEN st
    ELSE [st EXCEPT !.reports = Append(@, SemanticError(message, line)),
                    !.reported = @ \cup {name}]

\* the scopes that bind name, innermost last
ScopesWith(stack, name) == { i \in 1..Len(stack) : name \in DOMAIN stack[i] }

Innermost(S) == CHOOSE i \in S : \A j \in S : j <= i

Outermost(S) == CHOOSE i \in S : \A j \in S : i <= j

\* access as it would be without reversed(): the outermost binding wins
access_outermost_first(st, node, path) ==
    LET name == get_name(node)
        hits == ScopesWith(st.scope_stack, name)
    IN  IF hits # {}
        THEN [st EXCEPT !.dtype = (path :> st.scope_stack[Outermost(hits)][name]) @@ @]
        ELSE report(st, name, <<"'", name, "' used before definition">>, node.line)

access(st, node, path) ==
    LET name == get_name(node)
        hits == ScopesWith(st.scope_stack, name)
    IN  IF hits # {}
        THEN [st EXCEPT !.dtype = (path :> st.scope_stack[Innermost(hits)][name]) @@ @]
        ELSE report(st, name, <<"'", name, "' used before definition">>, node.line)

\* define as it would be without the early return: a redefinition is
\* reported and then overwrites the binding
define_without_return(st, node, path, type) ==
    LET name == get_name(node)
        top  == Len(st.scope_stack)
        rep  == IF name \in DOMAIN st.scope_stack[top]
                THEN report(st, name, <<"redefinition of '", name, "'">>, node.line)
                ELSE st
    IN  [rep EXCEPT !.scope_stack[top] = (name :> type) @@ @,
                    !.type_attr = (path :> type) @@ @]

define(st, node, path, type) ==
    LET name == get_name(node)
        top  == Len(st.scope_stack)
    IN  IF name \in DOMAIN st.scope_stack[top]
        THEN report(st, name, <<"redefinition of '", name, "'">>, node.line)
        ELSE [st EXCEPT !.scope_stack[top] = (name :> type) @@ @,
                        !.type_attr = (path :> type) @@ @]

new_scope(st) == [st EXCEPT !.scope_stack = Append(@, <<>>)]

end_scope(st) ==
    [st EXCEPT !.scope_stack = SubSeq(@, 1, Len(@) - 1)]

fitting_int_type(value) == <<"i", "n", "t">>

\* the calls postorder makes for the elements of a list, in order
Calls(nodes, path, offset) ==
    [i \in 1..Len(nodes) |-> Call(nodes[i], Append(path, offset + i))]

Visiting(cls) ==
    /\ pc = "analyze"
    /\ exc = "none"
    /\ agenda # <<>>
    /\ Head(agenda).op = "postorder"
    /\ isinstance(Head(agenda).node, cls)

\* the step returns normally: st is the analyzer state it leaves and calls
\* are the recursive calls it makes
Step(st, calls) ==
    /\ scope_stack' = st.scope_stack
    /\ reports' = st.reports
    /\ reported' = st.reported
    /\ dtype' = st.dtype
    /\ type_attr' = st.type_attr
    /\ agenda' = calls \o Tail(agenda)
    /\ UNCHANGED <<pc, exc, ast, tokVars, parVars>>

\* the step raises e: st is the analyzer state at the time of the raise
Raise(st, e) ==
    /\ exc' = e
    /\ scope_stack' = st.scope_stack
    /\ reports' = st.reports
    /\ reported' = st.reported
    /\ dtype' = st.dtype
    /\ type_attr' = st.type_attr
    /\ UNCHANGED <<pc, ast, agenda, tokVars, parVars>>

\* Primary: the branch reads node.token.token_type, an attribute that
\* Token.__init__ never assigns
postorder_Primary ==
    /\ Visiting("Primary")
    /\ LET node == Head(agenda).node
           path == Head(agenda).path
       IN  IF ~HasAttr(node.token, "token_type")
           THEN Raise(SemState, "AttributeError")
           ELSE IF node.token.token_type = "IDENT"
                THEN Step(access(SemState, node, path), <<>>)
                ELSE IF node.token.token_type = "NUMBER"
                     THEN Step([SemState EXCEPT !.dtype =
                                  (path :> fitting_int_type(node.token.literal)) @@ @], <<>>)
                     ELSE Step(SemState, <<>>)

postorder_UnaryExpr ==
    /\ Visiting("UnaryExpr")
    /\ LET node == Head(agenda).node
           path == Head(agenda).path
       IN  Step(SemState, <<Call(node.operand, Append(path, 1))>>)

postorder_BinExpr ==
    /\ Visiting("BinExpr")
    /\ LET node == Head(agenda).node
           path == Head(agenda).path
       IN  Step(SemState, <<Call(node.left, Append(path, 1)),
                            Call(node.right, Append(path, 2))>>)

postorder_FunctionCall ==
    /\ Visiting("FunctionCall")
    /\ LET node == Head(agenda).node
           path == Head(agenda).path
       IN  Step(access(SemState, node, path), Calls(node.args, path, 0))

postorder_AssignmentStatement ==
    /\ Visiting("AssignmentStatement")
    /\ LET node == Head(agenda).node
           path == Head(agenda).path
       IN  Step(SemState, <<Call(node.lhs, Append(path, 1)),
                            Call(node.rhs, Append(path, 2))>>)

postorder_DefinitionStatement ==
    /\ Visiting("DefinitionStatement")
    /\ LET node == Head(agenda).node
           path == Head(agenda).path
       IN  Step(define(SemState, node.ident, Append(path, 1), node.type),
                <<Call(node.rhs, Append(path, 2))>>)

postorder_ReturnStatement ==
    /\ Visiting("ReturnStatement")
    /\ LET node == Head(agenda).node
           path == Head(agenda).path
       IN  Step(SemState, <<Call(node.expr, Append(path, 1))>>)

\* a Body object is truthy, so a false_body that is present is always visited
postorder_IfStatement ==
    /\ Visiting("IfStatement")
    /\ LET node == Head(agenda).node
           path == Head(agenda).path
       IN  Step(new_scope(SemState),
                <<Call(node.condition, Append(path, 1)),
                  Call(node.true_body, Append(path, 2))>>
                \o (IF node.false_body # None
                    THEN <<Call(node.false_body, Append(path, 3))>>
                    ELSE <<>>)
                \o <<EndScope>>)

\* the while branch as it would be without the end_scope() call
postorder_WhileStatement_without_end_scope ==
    /\ Visiting("WhileStatement")
    /\ LET node == Head(agenda).node
           path == Head(agenda).path
       IN  Step(new_scope(SemState),
                <<Call(node.condition, Append(path, 1)),
                  Call(node.body, Append(path, 2))>>)

postorder_WhileStatement ==
    /\ Visiting("WhileStatement")
    /\ LET node == Head(agenda).node
           path == Head(agenda).path
       IN  Step(new_scope(SemState),
                <<Call(node.condition, Append(path, 1)),
                  Call(node.body, Append(path, 2)), EndScope>>)

postorder_Body ==
    /\ Visiting("Body")
    /\ LET node == Head(agenda).node
           path == Head(agenda).path
       IN  Step(SemState, Calls(node.statements, path, 0))

\* FunctionDefinition: the argument node.return_type.literal is evaluated
\* before define() is called; return_type is a Type, which has the attributes
\* name, size and signed
postorder_FunctionDefinition ==
    /\ Visiting("FunctionDefinition")
    /\ LET node == Head(agenda).node
           path == Head(agenda).path
       IN  IF ~HasAttr(node.return_type, "literal")
           THEN Raise(SemState, "AttributeError")
           ELSE Step(new_scope(define(SemState, node, path, node.return_type.literal)),
                     Calls(node.params, path, 0)
                     \o <<Call(node.body, Append(path, Len(node.params) + 1)), EndScope>>)

postorder_Program ==
    /\ Visiting("Program")
    /\ LET node == Head(agenda).node
           path == Head(agenda).path
       IN  Step(SemState, Calls(node.contents, path, 0))

\* a call argument is the Token that parse_function_call consumed: no
\* isinstance test of postorder matches it and the call returns
postorder_Token ==
    /\ pc = "analyze"
    /\ exc = "none"
    /\ agenda # <<>>
    /\ Head(agenda).op = "postorder"
    /\ ~HasAttr(Head(agenda).node, "kind")
    /\ Step(SemState, <<>>)

\* the end_scope() call that closes an if, a while or a function
postorder_end_scope ==
    /\ pc = "analyze"
    /\ exc = "none"
    /\ agenda # <<>>
    /\ Head(agenda).op = "end_scope"
    /\ Step(end_scope(SemState), <<>>)

\* analyze() returns when postorder(self.ast) has returned
analyze_return ==
    /\ pc = "analyze"
    /\ exc = "none"
    /\ agenda = <<>>
    /\ pc' = "done"
    /\ UNCHANGED <<exc, tokVars, parVars, semVars>>

analyze ==
    \/ postorder_Primary
    \/ postorder_UnaryExpr
    \/ postorder_BinExpr
    \/ postorder_FunctionCall
    \/ postorder_AssignmentStatement
    \/ postorder_DefinitionStatement
    \/ postorder_ReturnStatement
    \/ postorder_IfStatement
    \/ postorder_WhileStatement
    \/ postorder_Body
    \/ postorder_FunctionDefinition
    \/ postorder_Program
    \/ postorder_Token
    \/ postorder_end_scope
    \/ analyze_return

(***************************************************************************)
(* test.py: tokenizer, then parser                                         *)
(***************************************************************************)
\* fn f(): int / return 1 / end, without a newline after end
MinimalProgram ==
    <<"f", "n", " ", "f", "(", ")", ":", " ", "i", "n", "t", "\n",
      "r", "e", "t", "u", "r", "n", " ", "1", "\n", "e", "n", "d">>

\* a while body of one malformed statement (a b) and two well-formed ones:
\* while a / a b / c = 1 / d = 2 / end
RecoveryProgram ==
    <<"w", "h", "i", "l", "e", " ", "a", "\n", "a", " ", "b", "\n",
      "c", " ", "=", " ", "1", "\n", "d", " ", "=", " ", "2", "\n",
      "e", "n", "d", "\n">>

\* (1 + 2) = 3
LvalueProgram ==
    <<"(", "1", " ", "+", " ", "2", ")", " ", "=", " ", "3", "\n">>

\* the six keywords, the ten type names, identifiers that contain one of them
\* (fnx, intx, _fn, if1) and three tokens that are not identifiers
KeywordProgram ==
    <<"f", "n", " ", "i", "f", " ", "e", "l", "s", "e", " ", "w", "h",
      "i", "l", "e", " ", "e", "n", "d", " ", "r", "e", "t", "u", "r",
      "n", " ", "v", "o", "i", "d", " ", "p", "t", "r", " ", "b", "y",
      "t", "e", " ", "s", "h", "o", "r", "t", " ", "i", "n", "t", " ",
      "l", "o", "n", "g", " ", "u", "b", "y", "t", "e", " ", "u", "s",
      "h", "o", "r", "t", " ", "u", "i", "n", "t", " ", "u", "l", "o",
      "n", "g", " ", "f", "n", "x", " ", "i", "n", "t", "x", " ", "_",
      "f", "n", " ", "i", "f", "1", " ", "1", " ", "<", "=", " ", "(",
      "\n">>

\* a malformed top-level statement followed by a well-formed one:
\* a b / c = 1
TopLevelProgram ==
    <<"a", " ", "b", "\n", "c", " ", "=", " ", "1", "\n">>

\* a - b * c - d < e
PrecedenceProgram ==
    <<"a", " ", "-", " ", "b", " ", "*", " ", "c", " ", "-", " ", "d",
      " ", "<", " ", "e", "\n">>

\* 1 + f(x)
CallRightProgram ==
    <<"1", " ", "+", " ", "f", "(", "x", ")", "\n">>

\* f(x) + 1
CallLeftProgram ==
    <<"f", "(", "x", ")", " ", "+", " ", "1", "\n">>

\* - - x
NegNegProgram ==
    <<"-", " ", "-", " ", "x", "\n">>

\* * * p
DerefDerefProgram ==
    <<"*", " ", "*", " ", "p", "\n">>

\* &x
AddressProgram ==
    <<"&", "x", "\n">>

\* -a * b
NegTimesProgram ==
    <<"-", "a", " ", "*", " ", "b", "\n">>

UnaryPrograms == {NegNegProgram, DerefDerefProgram, AddressProgram, NegTimesProgram}

NamedSources ==
    {MinimalProgram, RecoveryProgram, LvalueProgram, KeywordProgram,
     TopLevelProgram, PrecedenceProgram, CallRightProgram, CallLeftProgram}
    \cup UnaryPrograms

Sources == UNION { [1..n -> Alphabet] : n \in 0..MaxLen }

Init ==
    /\ source \in Sources \cup NamedSources
    /\ pc = "tokenize"
    /\ exc = "none"
    /\ idx = 0
    /\ line_number = 1
    /\ tokens = <<>>
    /\ errors = <<>>
    /\ p_idx = 0
    /\ p_errors = <<>>
    /\ p_types = <<>>
    /\ ast = None
    /\ agenda = <<>>
    /\ scope_stack = << <<>> >>
    /\ reports = <<>>
    /\ reported = {}
    /\ dtype = <<>>
    /\ type_attr = <<>>

Next == tokenize \/ parse_program

Spec == Init /\ [][Next]_vars

(***************************************************************************)
(* SemanticAnalyzer(ast, filename).analyze() on the trees of a bounded      *)
(* family                                                                  *)
(***************************************************************************)
MaxBody == 2

Names == { <<"x">>, <<"y">> }

Ident(name) == Primary(Token("IDENT", name, 1))
Number(lit) == Primary(Token("NUMBER", lit, 1))
CallOf(name, args) == FunctionCall(Ident(name), args)

T_int  == literal_to_type(<<"i", "n", "t">>)
T_byte == literal_to_type(<<"b", "y", "t", "e">>)

Cx == CallOf(<<"x">>, <<>>)
Cy == CallOf(<<"y">>, <<>>)
Ix == Ident(<<"x">>)
N1 == Number(<<"1">>)

\* statements of the bodies of if and while
InnerStmts ==
    { DefinitionStatement(Ident(<<"x">>), Cy, T_int),
      DefinitionStatement(Ident(<<"x">>), Cy, T_byte),
      DefinitionStatement(Ident(<<"y">>), Cx, T_byte),
      ReturnStatement(Cx),
      ReturnStatement(Ix) }

Bodies(k) == { Body(s) : s \in UNION { [1..n -> InnerStmts] : n \in 0..k } }

Compound ==
    { IfStatement(Cy, b, None) : b \in Bodies(MaxBody) }
    \cup { IfStatement(Cy, b, c) : b \in Bodies(1), c \in Bodies(1) }
    \cup { WhileStatement(Cy, b) : b \in Bodies(MaxBody) }
    \cup { IfStatement(Cy, Body(<<s, WhileStatement(Cx, b)>>), None) :
             s \in InnerStmts, b \in Bodies(1) }

Simple ==
    { ReturnStatement(CallOf(<<"x">>, << Token("IDENT", <<"y">>, 1) >>)),
      ReturnStatement(BinExpr(Cx, Token("PLUS", <<"+">>, 1), Cy)),
      AssignmentStatement(UnaryExpr(Token("STAR", <<"*">>, 1), Cx), Cy),
      AssignmentStatement(Ix, N1),
      DefinitionStatement(Ident(<<"x">>), N1, T_int),
      FunctionDefinition(Ident(<<"x">>), <<>>, T_int, Body(<<ReturnStatement(N1)>>)) }

Before ==
    { DefinitionStatement(Ident(<<"x">>), Cy, T_int),
      DefinitionStatement(Ident(<<"y">>), Cx, T_int),
      ReturnStatement(Cx) }

After ==
    { DefinitionStatement(Ident(<<"x">>), Cy, T_int),
      DefinitionStatement(Ident(<<"x">>), Cy, T_byte),
      ReturnStatement(Cx),
      ReturnStatement(Ix) }

Opt(S) == { <<>> } \cup { <<s>> : s \in S }

Programs ==
    { Program(a \o m \o b) :
        a \in Opt(Before), m \in Opt(Compound \cup Simple), b \in Opt(After) }

InitSem ==
    /\ ast \in Programs
    /\ agenda = <<Call(ast, <<>>)>>
    /\ pc = "analyze"
    /\ exc = "none"
    /\ source = <<>>
    /\ idx = 0
    /\ line_number = 1
    /\ tokens = <<>>
    /\ errors = <<>>
    /\ p_idx = 0
    /\ p_errors = <<>>
    /\ p_types = <<>>
    /\ scope_stack = << <<>> >>
    /\ reports = <<>>
    /\ reported = {}
    /\ dtype = <<>>
    /\ type_attr = <<>>

NextSem == analyze

SpecSem == InitSem /\ [][NextSem]_vars

(***************************************************************************)
(* Type.token_to_type on the TYPE tokens of a bounded list, as the parser   *)
(* calls it for a declared type: Type.token_to_type(self.require(TYPE))    *)
(***************************************************************************)
MaxTypes == 2

TypeTokens == { Token("TYPE", t, 1) : t \in TYPES }

InitType ==
    /\ tokens \in UNION { [1..n -> TypeTokens] : n \in 1..MaxTypes }
    /\ pc = "token_to_type"
    /\ exc = "none"
    /\ source = <<>>
    /\ idx = 0
    /\ line_number = 1
    /\ errors = <<>>
    /\ p_idx = 0
    /\ p_errors = <<>>
    /\ p_types = <<>>
    /\ ast = None
    /\ agenda = <<>>
    /\ scope_stack = << <<>> >>
    /\ reports = <<>>
    /\ reported = {}
    /\ dtype = <<>>
    /\ type_attr = <<>>

\* the next TYPE token is consumed and converted
require_token_to_type ==
    /\ pc = "token_to_type"
    /\ exc = "none"
    /\ p_idx < Len(tokens)
    /\ p_types' = Append(p_types, token_to_type(tokens[p_idx + 1]))
    /\ p_idx' = p_idx + 1
    /\ UNCHANGED <<pc, exc, p_errors, tokVars, semVars>>

NextType == require_token_to_type

SpecType == InitType /\ [][NextType]_vars

(***************************************************************************)
(* Properties of Type (checked under SpecType)                             *)
(***************************************************************************)
UnsignedNames ==
    { <<"u", "b", "y", "t", "e">>, <<"u", "s", "h", "o", "r", "t">>,
      <<"u", "i", "n", "t">>, <<"u", "l", "o", "n", "g">> }

\* C14: the Type that literal_to_type returns for a type name has the name,
\* the size of the table, and a signed flag that is false exactly for ubyte,
\* ushort, uint and ulong
C14_Signedness ==
    \A i \in 1..Len(p_types) :
        LET name == tokens[i].literal IN
        /\ p_types[i].name = name
        /\ p_types[i].size = size_map[name]
        /\ p_types[i].signed = (name \notin UnsignedNames)

(***************************************************************************)
(* Properties of the tokenizer and of the driver (checked under Spec)      *)
(***************************************************************************)
NewlinesBefore(i) == Cardinality({ k \in 1..i : source[k] = "\n" })

EOFPositions == { i \in 1..Len(tokens) : tokens[i].type = "EOF" }

\* C1: for every source, tokenize returns without raising, and the token list
\* it leaves holds exactly one EOF token, at the last position
C1_TokenizeTotal ==
    /\ pc = "tokenize" => exc = "none"
    /\ pc # "tokenize" => EOFPositions = {Len(tokens)} /\ tokens # <<>>

\* C2: for every token list that ends with one EOF token, parse_program lets
\* no error escape: the errors raised while parsing end up in Parser.errors
C2_ParseTotal ==
    (pc = "parse" /\ EOFPositions = {Len(tokens)}) => exc = "none"

AfterParse == pc \in {"analyze", "done"}

\* C3: a body of one malformed statement followed by N well-formed statements
\* parses with exactly one syntax diagnostic into a Body of the N statements,
\* in order (here the body of the while of RecoveryProgram, N = 2)
C3_RecoveryBound ==
    source = RecoveryProgram =>
        /\ exc = "none"
        /\ AfterParse =>
             /\ Len(p_errors) = 1
             /\ Len(ast.contents) = 1
             /\ ast.contents[1].kind = "WhileStatement"
             /\ LET st == ast.contents[1].body.statements IN
                  /\ Len(st) = 2
                  /\ st[1].kind = "AssignmentStatement"
                  /\ st[1].lhs.token.literal = <<"c">>
                  /\ st[2].kind = "AssignmentStatement"
                  /\ st[2].lhs.token.literal = <<"d">>

\* C7: the statement (1 + 2) = 3 produces exactly one syntax diagnostic, with
\* the message "invalid lvalue", and no AssignmentStatement node
C7_InvalidLvalue ==
    source = LvalueProgram =>
        /\ exc = "none"
        /\ AfterParse =>
             /\ Len(p_errors) = 1
             /\ p_errors[1].message = "invalid lvalue"
             /\ ast.contents = <<>>

\* C8: every token emitted from a source character carries the line number
\* 1 + the number of newline characters strictly before its first character
C8_LineTracking ==
    [][ (pc = "tokenize" /\ pc' = "tokenize" /\ Len(tokens') = Len(tokens) + 1)
            => tokens'[Len(tokens')].line_number = 1 + NewlinesBefore(idx) ]_vars

\* C9: on MinimalProgram the tokenizer, the parser and the analyzer run to
\* completion, the Program holds one FunctionDefinition named f with no
\* params, return type int and a body of one ReturnStatement, and the three
\* diagnostic lists are empty
C9_RoundTrip ==
    source = MinimalProgram =>
        /\ exc = "none"
        /\ errors = <<>> /\ p_errors = <<>> /\ reports = <<>>
        /\ pc = "done" =>
             /\ Len(ast.contents) = 1
             /\ ast.contents[1].kind = "FunctionDefinition"
             /\ get_name(ast.contents[1]) = <<"f">>
             /\ ast.contents[1].params = <<>>
             /\ ast.contents[1].return_type.name = <<"i", "n", "t">>
             /\ Len(ast.contents[1].body.statements) = 1
             /\ ast.contents[1].body.statements[1].kind = "ReturnStatement"

KeywordLiterals ==
    { <<"f", "n">>, <<"i", "f">>, <<"e", "l", "s", "e">>,
      <<"w", "h", "i", "l", "e">>, <<"e", "n", "d">>,
      <<"r", "e", "t", "u", "r", "n">> }

KeywordKinds == {"FN", "IF", "ELSE", "WHILE", "END", "RETURN"}

\* the token list that tokenize returns holds a token of literal lit and
\* kind type
HasToken(lit, type) ==
    \E i \in 1..Len(tokens) : tokens[i].literal = lit /\ tokens[i].type = type

\* C12: when tokenize resolves the keywords, a token ends with a keyword kind
\* iff its literal is one of fn, if, else, while, end, return (and then the
\* kind is the one of that keyword), with kind TYPE iff its literal is one of
\* the ten type names; an identifier whose literal is neither stays IDENT,
\* and a token that is not an identifier is left as it was
C12_KeywordResolution ==
    [][ (pc = "tokenize" /\ pc' = "parse")
            => /\ Cardinality(TYPES) = 10
               /\ \A i \in 1..Len(tokens) :
                    LET before == tokens[i]
                        after  == tokens'[i]
                    IN  /\ after.literal = before.literal
                        /\ (after.type \in KeywordKinds) <=> (after.literal \in KeywordLiterals)
                        /\ after.literal \in KeywordLiterals
                               => after.type = KEYWORDS[after.literal]
                        /\ (after.type = "TYPE") <=> (after.literal \in TYPES)
                        /\ before.type # "IDENT" => after = before
                        /\ (before.type = "IDENT"
                               /\ after.literal \notin KeywordLiterals \cup TYPES)
                               => after.type = "IDENT" ]_vars

\* KeywordProgram was tokenized: fn, while and return are keywords, int and
\* ulong are types, fnx, intx, _fn and if1 are identifiers
C12_Witness ==
    /\ source = KeywordProgram
    /\ pc = "parse"
    /\ HasToken(<<"f", "n">>, "FN")
    /\ HasToken(<<"w", "h", "i", "l", "e">>, "WHILE")
    /\ HasToken(<<"r", "e", "t", "u", "r", "n">>, "RETURN")
    /\ HasToken(<<"i", "n", "t">>, "TYPE")
    /\ HasToken(<<"u", "l", "o", "n", "g">>, "TYPE")
    /\ HasToken(<<"f", "n", "x">>, "IDENT")
    /\ HasToken(<<"i", "n", "t", "x">>, "IDENT")
    /\ HasToken(<<"_", "f", "n">>, "IDENT")
    /\ HasToken(<<"i", "f", "1">>, "IDENT")
    /\ HasToken(<<"<", "=">>, "LESS_EQUAL")

\* a character of none of the classes the scanner knows
IsInvalidChar(c) ==
    /\ c \notin {" ", "\t"}
    /\ c \notin Letters \cup Digits \cup {"_"}
    /\ c # ";"
    /\ <<c>> \notin DOMAIN OPERATORS
    /\ c \notin DOMAIN STRUCTURES

\* the character at position k follows a comment marker of its line; the
\* newline that ends the line is not part of the comment
InComment(k) ==
    \E j \in 1..(k - 1) : source[j] = ";" /\ \A m \in j..k : source[m] # "\n"

\* the positions up to i of the invalid characters outside comments
InvalidBefore(i) == { k \in 1..i : IsInvalidChar(source[k]) /\ ~InComment(k) }

\* the characters that end up in a token: all but blanks, comments and
\* invalid characters
Kept(k) ==
    /\ source[k] \notin {" ", "\t", ";"}
    /\ ~InComment(k)
    /\ ~IsInvalidChar(source[k])

KeptPositions == { k \in 1..Len(source) : Kept(k) }

\* the kept characters, in the order of the text
KeptText ==
    [n \in 1..Cardinality(KeptPositions) |->
        source[CHOOSE k \in KeptPositions :
                  Cardinality({ j \in KeptPositions : j <= k }) = n]]

RECURSIVE Literals(_)
Literals(toks) ==
    IF toks = <<>> THEN <<>> ELSE Head(toks).literal \o Literals(Tail(toks))

\* C13: an invalid character outside a comment appends one diagnostic with
\* the line of the character (errors holds one per such character scanned so
\* far), emits no token and moves the cursor by one, and the scan goes on:
\* the tokens that tokenize returns are those of the rest of the text, in
\* order
C13_InvalidCharacter ==
    /\ [](Len(errors) = Cardinality(InvalidBefore(idx)))
    /\ [](pc = "parse" => Literals(tokens) = KeptText)
    /\ [][ (pc = "tokenize" /\ exc = "none" /\ idx < Len(source)
               /\ IsInvalidChar(source[idx + 1]))
              => /\ errors' = Append(errors,
                      TokenizerException(<<"invalid character: ", source[idx + 1]>>,
                                         1 + NewlinesBefore(idx)))
                 /\ tokens' = tokens
                 /\ idx' = idx + 1
                 /\ line_number' = line_number
                 /\ pc' = "tokenize"
                 /\ exc' = "none" ]_vars

\* newline, $, (: the diagnostic for $ is on line 2 and the parenthesis after
\* it was tokenized
C13_Witness ==
    /\ source = <<"\n", "$", "(">>
    /\ pc = "parse"
    /\ errors = << TokenizerException(<<"invalid character: ", "$">>, 2) >>
    /\ Len(tokens) = 3
    /\ tokens[2] = Token("LEFT_PAREN", <<"(">>, 2)

\* C15: a malformed top-level statement contributes exactly one syntax
\* diagnostic and the well-formed statement after it is parsed into
\* Program.contents (TopLevelProgram: one diagnostic for `a b`, contents is
\* the assignment c = 1)
C15_TopLevelRecovery ==
    source = TopLevelProgram =>
        /\ exc = "none"
        /\ AfterParse =>
             /\ Len(p_errors) = 1
             /\ Len(ast.contents) = 1
             /\ ast.contents[1].kind = "AssignmentStatement"
             /\ ast.contents[1].lhs.token.literal = <<"c">>

Op(type, literal) == Token(type, literal, 1)

\* C16: * and / bind tighter than + and -, which bind tighter than the
\* comparisons, and operators of one level associate to the left:
\* a - b * c - d < e parses as ((a - (b * c)) - d) < e
C16_Precedence ==
    source = PrecedenceProgram =>
        /\ exc = "none"
        /\ AfterParse =>
             /\ p_errors = <<>>
             /\ ast.contents =
                  << BinExpr(
                       BinExpr(
                         BinExpr(Ident(<<"a">>), Op("MINUS", <<"-">>),
                                 BinExpr(Ident(<<"b">>), Op("STAR", <<"*">>), Ident(<<"c">>))),
                         Op("MINUS", <<"-">>), Ident(<<"d">>)),
                       Op("LESS", <<"<">>), Ident(<<"e">>)) >>

\* C17: a function call is accepted as an operand on either side of a binary
\* operator: 1 + f(x) and f(x) + 1 each parse into one BinExpr with a
\* FunctionCall operand, without a syntax diagnostic
C17_CallAsOperand ==
    source \in {CallRightProgram, CallLeftProgram} =>
        /\ exc = "none"
        /\ AfterParse =>
             /\ p_errors = <<>>
             /\ Len(ast.contents) = 1
             /\ ast.contents[1].kind = "BinExpr"
             /\ ast.contents[1].op.literal = <<"+">>
             /\ source = CallRightProgram => ast.contents[1].right.kind = "FunctionCall"
             /\ source = CallLeftProgram => ast.contents[1].left.kind = "FunctionCall"

\* C18: -, * and & are accepted as prefix operators and nest to the right,
\* without a lexical or a syntax diagnostic, and bind tighter than * and /:
\* - - x and * * p parse into a UnaryExpr of a UnaryExpr, &x into a
\* UnaryExpr, -a * b into a BinExpr whose left operand is the UnaryExpr
C18_UnaryNesting ==
    source \in UnaryPrograms =>
        /\ exc = "none"
        /\ errors = <<>>
        /\ AfterParse =>
             /\ p_errors = <<>>
             /\ Len(ast.contents) = 1
             /\ source \in {NegNegProgram, DerefDerefProgram}
                  => /\ ast.contents[1].kind = "UnaryExpr"
                     /\ ast.contents[1].operand.kind = "UnaryExpr"
             /\ source = AddressProgram
                  => /\ ast.contents[1].kind = "UnaryExpr"
                     /\ ast.contents[1].op.literal = <<"&">>
             /\ source = NegTimesProgram
                  => /\ ast.contents[1].kind = "BinExpr"
                     /\ ast.contents[1].left.kind = "UnaryExpr"

(***************************************************************************)
(* Properties of the analyzer (checked under SpecSem)                      *)
(***************************************************************************)
UsedBeforeDefinition(name) == <<"'", name, "' used before definition">>
Redefinition(name) == <<"redefinition of '", name, "'">>

\* the number of diagnostics in reports that carry the message m
Count(m) == Cardinality({ i \in 1..Len(reports) : reports[i].message = m })
CountNext(m) == Cardinality({ i \in 1..Len(reports') : reports'[i].message = m })

\* the identifier a diagnostic is about
NameOf(r) == r.message[2]

NextCall == Head(agenda)

InPostorder == pc = "analyze" /\ exc = "none" /\ agenda # <<>> /\ NextCall.op = "postorder"

\* the next call visits a reference to name: an identifier Primary or the
\* callee of a FunctionCall
VisitsReference(name) ==
    /\ InPostorder
    /\ \/ /\ isinstance(NextCall.node, "Primary")
          /\ NextCall.node.token.type = "IDENT"
       \/ isinstance(NextCall.node, "FunctionCall")
    /\ get_name(NextCall.node) = name

VisitsDefinition(name) ==
    /\ InPostorder
    /\ isinstance(NextCall.node, "DefinitionStatement")
    /\ get_name(NextCall.node.ident) = name

Visible(name) == ScopesWith(scope_stack, name) # {}

Top == Len(scope_stack)

\* C4: the diagnostic list never holds two diagnostics for the same name, of
\* whichever kinds; and a reference to a name that has no visible binding
\* (and no redefinition diagnostic) leaves exactly one "used before
\* definition" diagnostic for it
C4_OnePerName ==
    /\ [](\A i, j \in 1..Len(reports) : NameOf(reports[i]) = NameOf(reports[j]) => i = j)
    /\ [][ \A name \in Names :
             (VisitsReference(name) /\ ~Visible(name) /\ Count(Redefinition(name)) = 0)
                 => (exc' = "none" /\ CountNext(UsedBeforeDefinition(name)) = 1) ]_vars

BodyDefines(body, name) ==
    /\ body # None
    /\ \E i \in 1..Len(body.statements) :
         /\ body.statements[i].kind = "DefinitionStatement"
         /\ get_name(body.statements[i].ident) = name

\* the top-level statement k is an if or a while with a definition of name in
\* one of its bodies
DefinesInside(k, name) ==
    LET s == ast.contents[k] IN
    \/ s.kind = "IfStatement" /\ (BodyDefines(s.true_body, name) \/ BodyDefines(s.false_body, name))
    \/ s.kind = "WhileStatement" /\ BodyDefines(s.body, name)

DefinesAtTopLevel(k, name) ==
    LET s == ast.contents[k] IN
    s.kind = "DefinitionStatement" /\ get_name(s.ident) = name

\* the next call visits the expression of the top-level statement j, which
\* comes after an if or while that defines name inside and after no top-level
\* definition of name
ReferenceAfterEnd(name) ==
    /\ VisitsReference(name)
    /\ Len(NextCall.path) = 2
    /\ LET j == NextCall.path[1] IN
         /\ \E k \in 1..(j - 1) : DefinesInside(k, name)
         /\ \A k \in 1..(j - 1) : ~DefinesAtTopLevel(k, name)

\* C5: a reference, after the end of an if or while, to a name defined only
\* inside it finds no binding (the scope is gone) and, unless the name was
\* already reported, records a "used before definition" diagnostic
C5_ScopeEnds ==
    [][ \A name \in Names :
          ReferenceAfterEnd(name)
              => /\ ~Visible(name)
                 /\ exc' = "none"
                 /\ NextCall.path \notin DOMAIN dtype'
                 /\ name \in reported'
                 /\ name \notin reported => CountNext(UsedBeforeDefinition(name)) = 1 ]_vars

\* a definition statement of a name that the innermost scope already binds
Redefines(name) == VisitsDefinition(name) /\ name \in DOMAIN scope_stack[Top]

VisitsIdentifier(name) ==
    /\ InPostorder
    /\ isinstance(NextCall.node, "Primary")
    /\ NextCall.node.token.type = "IDENT"
    /\ get_name(NextCall.node) = name

\* C11: the visit of an identifier Primary in expression position lets the
\* analysis go on to its return; when the name has a visible binding the node
\* gets dtype set to the bound type, and a node whose dtype stays unset has
\* its name among the reported names
C11_DtypeAnnotation ==
    [][ \A name \in Names :
          VisitsIdentifier(name)
              => /\ exc' = "none"
                 /\ Visible(name)
                      => /\ NextCall.path \in DOMAIN dtype'
                         /\ dtype'[NextCall.path] =
                                scope_stack[Innermost(ScopesWith(scope_stack, name))][name]
                 /\ NextCall.path \notin DOMAIN dtype' => name \in reported' ]_vars

\* the next call visits an argument of a FunctionCall: an element of args,
\* the identifier token that parse_function_call consumed
VisitsArgument(name) ==
    /\ InPostorder
    /\ ~HasAttr(NextCall.node, "kind")
    /\ NextCall.node.type = "IDENT"
    /\ NextCall.node.literal = name

\* C19: the visit of a FunctionCall analyzes every argument: an identifier
\* argument with a visible binding is annotated with the bound type, and one
\* with no visible binding, unless its name was already reported, records a
\* "used before definition" diagnostic
C19_CallArguments ==
    [][ \A name \in Names :
          VisitsArgument(name)
              => /\ exc' = "none"
                 /\ Visible(name)
                      => /\ NextCall.path \in DOMAIN dtype'
                         /\ dtype'[NextCall.path] =
                                scope_stack[Innermost(ScopesWith(scope_stack, name))][name]
                 /\ (~Visible(name) /\ name \notin reported)
                      => /\ name \in reported'
                         /\ CountNext(UsedBeforeDefinition(name)) = 1 ]_vars

\* the next call is made for a statement of the false body of the top-level
\* statement k, or for a part of such a statement
InFalseBody(k) ==
    /\ InPostorder
    /\ Len(NextCall.path) >= 3
    /\ NextCall.path[1] = k
    /\ NextCall.path[2] = 3

\* the top-level statement k is an if whose true body defines name, no
\* top-level statement before it defines name, and no statement of the false
\* body before the one being visited defines name
DefinedOnlyInTrueBody(k, name) ==
    LET s == ast.contents[k] IN
    /\ s.kind = "IfStatement"
    /\ BodyDefines(s.true_body, name)
    /\ \A i \in 1..(k - 1) : ~DefinesAtTopLevel(i, name)
    /\ \A j \in 1..(NextCall.path[3] - 1) :
         ~(/\ s.false_body.statements[j].kind = "DefinitionStatement"
           /\ get_name(s.false_body.statements[j].ident) = name)

\* C20: a name defined only in the true body of an if has no visible binding
\* where the false body refers to it, and a definition of the same name in
\* the false body records no redefinition diagnostic
C20_BranchScopes ==
    /\ [](\A name \in Names : \A k \in 1..Len(ast.contents) :
            (VisitsReference(name) /\ InFalseBody(k) /\ DefinedOnlyInTrueBody(k, name))
                => ~Visible(name))
    /\ [][ \A name \in Names : \A k \in 1..Len(ast.contents) :
             (VisitsDefinition(name) /\ InFalseBody(k) /\ DefinedOnlyInTrueBody(k, name))
                 => CountNext(Redefinition(name)) = Count(Redefinition(name)) ]_vars

VisitsFunctionDefinition(name) ==
    /\ InPostorder
    /\ isinstance(NextCall.node, "FunctionDefinition")
    /\ get_name(NextCall.node) = name

\* C21: the visit of a FunctionDefinition lets the analysis go on; when the
\* enclosing scope does not bind the name it binds it there to the return
\* type and pushes an empty scope for the parameters and the body, to be
\* popped when the function ends; when the enclosing scope binds the name
\* already it leaves that binding and, unless the name was reported before,
\* records a "redefinition" diagnostic
C21_FunctionBinding ==
    [][ \A name \in Names :
          VisitsFunctionDefinition(name)
              => /\ exc' = "none"
                 /\ Len(scope_stack') = Top + 1
                 /\ scope_stack'[Top + 1] = <<>>
                 /\ \A i \in 1..(Top - 1) : scope_stack'[i] = scope_stack[i]
                 /\ name \notin DOMAIN scope_stack[Top]
                      => /\ scope_stack'[Top] =
                               (name :> NextCall.node.return_type) @@ scope_stack[Top]
                         /\ reports' = reports
                 /\ name \in DOMAIN scope_stack[Top]
                      => /\ scope_stack'[Top] = scope_stack[Top]
                         /\ name \notin reported
                              => CountNext(Redefinition(name)) = 1
                 /\ Len(agenda') > 0
                 /\ agenda'[Len(agenda') - Len(agenda) + 1] = EndScope ]_vars

\* the child of node that postorder visits under position i of the path
Child(node, i) ==
    CASE node.kind = "Program" -> node.contents[i]
      [] node.kind = "Body" -> node.statements[i]
      [] node.kind = "IfStatement" ->
            IF i = 1 THEN node.condition
            ELSE IF i = 2 THEN node.true_body ELSE node.false_body
      [] node.kind = "WhileStatement" -> IF i = 1 THEN node.condition ELSE node.body
      [] node.kind = "DefinitionStatement" -> node.rhs
      [] node.kind = "AssignmentStatement" -> IF i = 1 THEN node.lhs ELSE node.rhs
      [] node.kind = "ReturnStatement" -> node.expr
      [] node.kind = "BinExpr" -> IF i = 1 THEN node.left ELSE node.right
      [] node.kind = "UnaryExpr" -> node.operand
      [] node.kind = "FunctionCall" -> node.args[i]
      [] node.kind = "FunctionDefinition" ->
            IF i <= Len(node.params) THEN node.params[i] ELSE node.body

RECURSIVE NodeAt(_, _)
NodeAt(node, path) ==
    IF path = <<>> THEN node ELSE NodeAt(Child(node, Head(path)), Tail(path))

\* the number of if, while and function definition nodes above the node at
\* path
Enclosing(path) ==
    Cardinality({ n \in 0..(Len(path) - 1) :
        NodeAt(ast, SubSeq(path, 1, n)).kind
            \in {"IfStatement", "WhileStatement", "FunctionDefinition"} })

\* the end_scope() calls that are still to be made
PendingEndScopes == { i \in 1..Len(agenda) : agenda[i].op = "end_scope" }

====
